---- MODULE Spec2Model ----
(***************************************************************************)
(* Model of drfpasswordless/serializers.py: the callback-token validation  *)
(* serializers (AUTH, VERIFY, CHANGE) and the alias serializers that ask   *)
(* for a token, over a shared user store and token store.  Strings are     *)
(* sequences of one-character strings, so that normalisation, case         *)
(* folding, regex matching and int() parsing are computed rather than      *)
(* assumed.                                                                *)
(***************************************************************************)
EXTENDS Integers, Sequences, FiniteSets, TLC

\* ------------------------------------------------------------------ bounds
NumUsers == 2
MaxTokens == 1
MaxNow == 2
MaxRequests == 1
NumWorkers == 2
MaxLen == 3

\* TOKEN_LENGTH = api_settings.PASSWORDLESS_CALLBACK_TOKEN_LENGTH
TOKEN_LENGTH == 6
\* max_length of the mobile CharField
MOBILE_MAX_LENGTH == 17
\* api_settings.PASSWORDLESS_TOKEN_EXPIRE_TIME, in clock ticks
TokenExpireTime == 1
\* api_settings.PASSWORDLESS_TEST_CODE_INCORRECT
TestCodeIncorrect == {0}

\* ----------------------------------------------------------------- strings
None == <<>>

Digits == {"0", "1", "2", "3", "4", "5", "6", "7", "8", "9"}
Whitespace == {" ", "\n", "\t"}

DigitVal(c) ==
  CASE c = "0" -> 0 [] c = "1" -> 1 [] c = "2" -> 2 [] c = "3" -> 3
    [] c = "4" -> 4 [] c = "5" -> 5 [] c = "6" -> 6 [] c = "7" -> 7
    [] c = "8" -> 8 [] c = "9" -> 9

LowerChar(c) ==
  CASE c = "A" -> "a" [] c = "B" -> "b" [] c = "C" -> "c" [] c = "X" -> "x"
    [] OTHER -> c

\* str.lower(), the folding behind Django's __iexact lookups
Lower(s) == [i \in DOMAIN s |-> LowerChar(s[i])]

\* ''.join(s.split(c)): s without the characters of cs
Remove(s, cs) == SelectSeq(s, LAMBDA c : c \notin cs)

\* str.strip(): s without its leading and trailing whitespace
Strip(s) ==
  LET idx == {i \in DOMAIN s : s[i] \notin Whitespace}
  IN IF idx = {} THEN <<>>
     ELSE SubSeq(s, CHOOSE i \in idx : \A j \in idx : i <= j,
                    CHOOSE i \in idx : \A j \in idx : j <= i)

AllDigits(s) == \A i \in DOMAIN s : s[i] \in Digits

RECURSIVE DecVal(_)
DecVal(s) ==
  IF s = <<>> THEN 0
  ELSE 10 * DecVal(SubSeq(s, 1, Len(s) - 1)) + DigitVal(s[Len(s)])

\* int(value): an optional sign and decimal digits; anything else raises
\* ValueError
PyInt(s) ==
  LET signed == Len(s) > 0 /\ s[1] \in {"+", "-"}
      body == IF signed THEN SubSeq(s, 2, Len(s)) ELSE s
  IN IF body = <<>> \/ ~AllDigits(body) THEN [k |-> "ValueError"]
     ELSE [k |-> "ok",
           v |-> IF signed /\ s[1] = "-" THEN 0 - DecVal(body) ELSE DecVal(body)]

\* serializers.EmailField: a local part, one "@", a domain part
IsEmail(s) ==
  /\ Cardinality({i \in DOMAIN s : s[i] = "@"}) = 1
  /\ s[1] # "@"
  /\ s[Len(s)] # "@"
  /\ \A i \in DOMAIN s : s[i] \notin Whitespace

\* RegexValidator(regex=r'^\+[1-9]\d{1,14}$'), applied with re.search: "$"
\* also matches before one trailing newline
PhoneRegexMatches(s) ==
  LET t == IF Len(s) > 0 /\ s[Len(s)] = "\n" THEN SubSeq(s, 1, Len(s) - 1) ELSE s
  IN /\ Len(t) >= 3
     /\ Len(t) <= 16
     /\ t[1] = "+"
     /\ t[2] \in Digits \ {"0"}
     /\ \A i \in 3..Len(t) : t[i] \in Digits

\* Variant: clear_mobile_number without the pass that drops the hyphens
clear_mobile_number_KeepHyphen(mobile) ==
  LET m1 == Remove(mobile, Whitespace)
      m3 == Remove(m1, {"("})
      m4 == Remove(m3, {")"})
  IN IF m4 = <<>> THEN [k |-> "IndexError"]
     ELSE [k |-> "ok", v |-> IF m4[1] # "+" THEN <<"+">> \o m4 ELSE m4]

clear_mobile_number(mobile) ==
  LET m1 == Remove(mobile, Whitespace)
      m2 == Remove(m1, {"-"})
      m3 == Remove(m2, {"("})
      m4 == Remove(m3, {")"})
  IN IF m4 = <<>> THEN [k |-> "IndexError"]
     ELSE [k |-> "ok", v |-> IF m4[1] # "+" THEN <<"+">> \o m4 ELSE m4]

\* ------------------------------------------------------------------ inputs
EmailA == <<"a", "@", "x">>
EmailAUpper == <<"A", "@", "x">>
EmailB == <<"b", "@", "x">>
EmailBUpper == <<"B", "@", "x">>
EmailMalformed == <<"a", "x">>
MobileA == <<"+", "1", "2">>
MobileARaw == <<"(", "1", ")", "-", "2">>
MobileB == <<"+", "1", "3">>
MobileDash == <<"-">>
MobileNewline == <<"+", "1", "2", "\n">>
Key1 == <<"0", "0", "0", "0", "0", "1">>
KeyDenied == <<"0", "0", "0", "0", "0", "0">>
KeyAlpha == <<"0", "0", "0", "0", "0", "a">>
KeyShort == <<"0", "0", "0", "0", "1">>

Users == 1..NumUsers
Workers == 1..NumWorkers
TokenTypes == {"AUTH", "VERIFY", "CHANGE"}
IssuedKeys == {Key1}
\* the (email, mobile) pairs of a payload; None is an absent field
AliasInputs ==
  {<<e, None>> : e \in {EmailA, EmailAUpper, EmailB, EmailMalformed}}
    \cup {<<None, m>> : m \in {MobileA, MobileARaw, MobileB, MobileDash, MobileNewline}}
    \cup {<<None, None>>, <<EmailA, MobileA>>}
\* the (alias pair, token) of a payload: every alias pair with an issued key
\* and with a key no token has, and the malformed tokens with an alias pair of
\* each shape
PayloadInputs ==
  (AliasInputs \X {Key1, KeyDenied})
    \cup ({<<EmailA, None>>, <<None, None>>, <<EmailA, MobileA>>} \X {KeyAlpha, KeyShort})
\* context user_id of a VERIFY or CHANGE request; 0 is no user's id
UserIdInputs == Users \cup {0}
\* the (field, value) of a request to an alias serializer
AliasRequestInputs ==
  {<<"email", e>> : e \in {EmailA, EmailAUpper, EmailB, EmailMalformed}}
    \cup {<<"mobile", m>> : m \in {MobileA, MobileARaw, MobileB, MobileDash, MobileNewline}}
\* the alias a token is issued for
IssueAliases == {<<"email", EmailA>>, <<"email", EmailB>>,
                 <<"mobile", MobileA>>, <<"mobile", MobileB>>}

\* the data of a request: the submitted fields and the context user_id
Payload(a, t, uid) == [email |-> a[1], mobile |-> a[2], token |-> t, user_id |-> uid]

\* ------------------------------------------------------------------- state
VARIABLES
  users,    \* User table: id -> [email, mobile, is_active, email_verified, mobile_verified]
  tokens,   \* CallbackToken table, in order of creation
  now,      \* the clock
  cfg,      \* api_settings, fixed for the life of the process
  last,     \* the request just served and its outcome, until the response is sent
  served,   \* the number of requests served
  wk        \* the request each concurrent worker has in flight

vars == <<users, tokens, now, cfg, last, served, wk>>

AliasTypeName(alias_type) == IF alias_type = "mobile" THEN "MOBILE" ELSE "EMAIL"
VerifiedField(kind) == IF kind = "MOBILE" THEN "mobile_verified" ELSE "email_verified"
AliasField(kind) == IF kind = "MOBILE" THEN "mobile" ELSE "email"

\* Variant: the alias filter compares with case (alias_type=alias instead of
\* alias_type__iexact=alias)
UsersWithAlias_CaseSensitive(us, alias_type, alias) ==
  {u \in DOMAIN us : us[u][alias_type] # None /\ us[u][alias_type] = alias}

\* User.objects.filter(**{alias_type + '__iexact': alias})
UsersWithAlias(us, alias_type, alias) ==
  {u \in DOMAIN us : us[u][alias_type] # None /\ Lower(us[u][alias_type]) = Lower(alias)}

\* User.objects.get(**{alias_type + '__iexact': alias})
UserGetByAlias(us, alias_type, alias) ==
  LET found == UsersWithAlias(us, alias_type, alias)
  IN IF found = {} THEN [k |-> "DoesNotExist"]
     ELSE IF Cardinality(found) > 1 THEN [k |-> "MultipleObjectsReturned"]
     ELSE [k |-> "ok", id |-> CHOOSE u \in found : TRUE]

\* User.objects.get(id=user_id)
UserGetById(us, user_id) ==
  IF user_id \in DOMAIN us THEN [k |-> "ok", id |-> user_id] ELSE [k |-> "DoesNotExist"]

\* Variant: the VERIFY user query by id alone
UserGetByIdAndAlias_IdOnly(us, user_id, alias_type, alias) ==
  IF user_id \in DOMAIN us THEN [k |-> "ok", id |-> user_id] ELSE [k |-> "DoesNotExist"]

\* User.objects.get(**{'id': user_id, alias_type + '__iexact': alias})
UserGetByIdAndAlias(us, user_id, alias_type, alias) ==
  IF user_id \in UsersWithAlias(us, alias_type, alias)
  THEN [k |-> "ok", id |-> user_id] ELSE [k |-> "DoesNotExist"]

\* Variant: the token query without its type= filter
TokenGet_AnyType(toks, user, key, type) ==
  LET found == {i \in DOMAIN toks : /\ toks[i].user = user
                                    /\ toks[i].key = key
                                    /\ toks[i].is_active}
  IN IF found = {} THEN [k |-> "DoesNotExist"]
     ELSE IF Cardinality(found) > 1 THEN [k |-> "MultipleObjectsReturned"]
     ELSE [k |-> "ok", id |-> CHOOSE i \in found : TRUE,
           token |-> toks[CHOOSE i \in found : TRUE]]

\* CallbackToken.objects.get(user=, key=, type=, is_active=True)
TokenGet(toks, user, key, type) ==
  LET found == {i \in DOMAIN toks : /\ toks[i].user = user
                                    /\ toks[i].key = key
                                    /\ toks[i].type = type
                                    /\ toks[i].is_active}
  IN IF found = {} THEN [k |-> "DoesNotExist"]
     ELSE IF Cardinality(found) > 1 THEN [k |-> "MultipleObjectsReturned"]
     ELSE [k |-> "ok", id |-> CHOOSE i \in found : TRUE,
           token |-> toks[CHOOSE i \in found : TRUE]]

\* CallbackToken(user=, key=, type=, is_active=True, to_alias=) with
\* to_alias_type set from the alias field: the unsaved token of test mode
TestModeToken(user, key, type, alias_type, alias) ==
  [k |-> "ok", id |-> 0,
   token |-> [user |-> user, key |-> key, type |-> type, is_active |-> TRUE,
              to_alias |-> alias, to_alias_type |-> AliasTypeName(alias_type),
              created_at |-> 0]]

\* utils.validate_token_age(callback_token): the active token with this key
\* is within its validity window (now - created_at <= ttl); reads, never writes
validate_token_age(toks, clock, value) ==
  LET found == {i \in DOMAIN toks : toks[i].key = value /\ toks[i].is_active}
  IN IF found = {} THEN [k |-> "ok", v |-> FALSE]
     ELSE IF Cardinality(found) > 1 THEN [k |-> "MultipleObjectsReturned"]
     ELSE [k |-> "ok",
           v |-> clock - toks[CHOOSE i \in found : TRUE].created_at <= TokenExpireTime]

\* utils.verify_user_alias(user, token): marks the alias of token.to_alias_type
\* verified; False (nothing written) on a persistence failure
verify_user_alias(us, user, token, fails) ==
  IF fails THEN [ok |-> FALSE, users |-> us]
  ELSE [ok |-> TRUE,
        users |-> [us EXCEPT ![user][VerifiedField(token.to_alias_type)] = TRUE]]

\* utils.change_user_alias(user, token, old_users): in one transaction clears
\* the alias on every prior holder, then assigns token.to_alias to user; False
\* (nothing written) on a failure
change_user_alias(us, user, token, old_users, fails) ==
  IF fails THEN [ok |-> FALSE, users |-> us]
  ELSE LET f == AliasField(token.to_alias_type)
           cleared == [u \in DOMAIN us |->
                         IF u \in old_users THEN [us[u] EXCEPT ![f] = None] ELSE us[u]]
       IN [ok |-> TRUE, users |-> [cleared EXCEPT ![user][f] = token.to_alias]]

\* ------------------------------------------------------------- serializers
\* A request on its way through a serializer.  pc is the next step of
\* is_valid(); outcome is Accepted (validate returned attrs with the user),
\* Rejected (a ValidationError, with its messages) or SystemError (any other
\* exception); alias_type / alias are what validate_alias returned, user the
\* user the lookup resolved, tok the id of the token row the lookup returned
\* (0 for the unsaved token of test mode); tokRead / usrRead tell whether the
\* token / user table was queried; chg and ver are the values
\* change_user_alias and verify_user_alias returned.
NewRequest(type, req) ==
  [pc |-> "begin", type |-> type, req |-> req, alias_type |-> "", alias |-> None,
   user |-> 0, tok |-> -1, token |-> None, outcome |-> "none", msg |-> {},
   tokRead |-> FALSE, usrRead |-> FALSE, chg |-> "none", ver |-> "none"]

Fin(r, outcome, msg) ==
  [r EXCEPT !.pc = "done", !.outcome = outcome, !.msg = msg, !.token = None]

MsgPhoneFormat ==
  "Mobile number must be entered in the format: '+999999999'. Up to 15 digits allowed."
MsgInvalidAlias == "Invalid alias parameters provided."

\* Variant: the field validator that does not raise when validate_token_age
\* returns False
token_age_validator_NoRaise(toks, clock, c, value) ==
  IF c.testMode
  THEN IF PyInt(value).k # "ok" THEN [k |-> PyInt(value).k, tokRead |-> FALSE]
       ELSE [k |-> "ok", ret |-> PyInt(value).v \notin TestCodeIncorrect,
             tokRead |-> FALSE]
  ELSE IF validate_token_age(toks, clock, value).k # "ok"
  THEN [k |-> validate_token_age(toks, clock, value).k, tokRead |-> TRUE]
  ELSE [k |-> "ok", ret |-> value, tokRead |-> TRUE]

\* token_age_validator(value); ret is the value it returns, which the field's
\* validator loop does not look at
token_age_validator(toks, clock, c, value) ==
  IF c.testMode
  THEN IF PyInt(value).k # "ok" THEN [k |-> PyInt(value).k, tokRead |-> FALSE]
       ELSE [k |-> "ok", ret |-> PyInt(value).v \notin TestCodeIncorrect,
             tokRead |-> FALSE]
  ELSE IF validate_token_age(toks, clock, value).k # "ok"
  THEN [k |-> validate_token_age(toks, clock, value).k, tokRead |-> TRUE]
  ELSE IF ~validate_token_age(toks, clock, value).v
  THEN [k |-> "ValidationError", tokRead |-> TRUE]
  ELSE [k |-> "ok", ret |-> value, tokRead |-> TRUE]

\* Variant: the fields with trim_whitespace=False
to_internal_value_NoTrim(data) ==
  data

\* CharField.to_internal_value of the declared fields: the value stripped
\* (trim_whitespace is on by default)
to_internal_value(data) ==
  [data EXCEPT !.email = Strip(@), !.mobile = Strip(@), !.token = Strip(@)]

\* The declared fields (email, mobile, token) run before validate(): every
\* field's ValidationError is collected, any other exception propagates
FieldErrors(req, tav) ==
  (IF req.email # None /\ ~IsEmail(req.email)
     THEN {"email: Enter a valid email address."} ELSE {})
  \cup (IF req.mobile # None /\ Len(req.mobile) > MOBILE_MAX_LENGTH
     THEN {"mobile: Ensure this field has no more than 17 characters."} ELSE {})
  \cup (IF tav.k = "ValidationError"
     THEN {"token: The token you entered isn't valid."} ELSE {})
  \cup (IF Len(req.token) # TOKEN_LENGTH
     THEN {"token: Tokens are 6 digits long."} ELSE {})

\* attrs['mobile'] after the standardisation of
\* AbstractBaseCallbackTokenSerializer.validate
StandardiseMobile(c, mobile) ==
  IF c.standardise THEN clear_mobile_number(mobile) ELSE [k |-> "ok", v |-> mobile]

\* AbstractBaseCallbackTokenSerializer.validate(attrs)
AbstractBaseCallbackTokenSerializer_validate(c, attrs) ==
  IF attrs.mobile = None THEN [k |-> "ok", attrs |-> attrs]
  ELSE IF StandardiseMobile(c, attrs.mobile).k # "ok"
  THEN [k |-> StandardiseMobile(c, attrs.mobile).k]
  ELSE IF ~PhoneRegexMatches(StandardiseMobile(c, attrs.mobile).v)
  THEN [k |-> "DjangoValidationError"]
  ELSE [k |-> "ok", attrs |-> [attrs EXCEPT !.mobile = StandardiseMobile(c, @).v]]

\* Variant: validate_alias without the check that email and mobile are not
\* both set
validate_alias_BothAllowed(attrs) ==
  IF attrs.email = None /\ attrs.mobile = None THEN [k |-> "ValidationError"]
  ELSE IF attrs.email # None
  THEN [k |-> "ok", alias_type |-> "email", alias |-> attrs.email]
  ELSE [k |-> "ok", alias_type |-> "mobile", alias |-> attrs.mobile]

\* AbstractBaseCallbackTokenSerializer.validate_alias(attrs)
validate_alias(attrs) ==
  IF attrs.email # None /\ attrs.mobile # None THEN [k |-> "ValidationError"]
  ELSE IF attrs.email = None /\ attrs.mobile = None THEN [k |-> "ValidationError"]
  ELSE IF attrs.email # None
  THEN [k |-> "ok", alias_type |-> "email", alias |-> attrs.email]
  ELSE [k |-> "ok", alias_type |-> "mobile", alias |-> attrs.mobile]

\* Variant: test mode without the check of the incorrect codes
LookupToken_NoDenylist(toks, c, user, callback_token, type, alias_type, alias) ==
  IF c.testMode
  THEN IF PyInt(callback_token).k # "ok"
       THEN [k |-> PyInt(callback_token).k, tokRead |-> FALSE]
       ELSE TestModeToken(user, callback_token, type, alias_type, alias)
              @@ [tokRead |-> FALSE]
  ELSE TokenGet(toks, user, callback_token, type) @@ [tokRead |-> TRUE]

\* the token of a validate(): synthesized in test mode (rejected when its
\* int() is a configured incorrect code), read from the token table otherwise
LookupToken(toks, c, user, callback_token, type, alias_type, alias) ==
  IF c.testMode
  THEN IF PyInt(callback_token).k # "ok"
       THEN [k |-> PyInt(callback_token).k, tokRead |-> FALSE]
       ELSE IF PyInt(callback_token).v \in TestCodeIncorrect
       THEN [k |-> "ValidationError", tokRead |-> FALSE]
       ELSE TestModeToken(user, callback_token, type, alias_type, alias)
              @@ [tokRead |-> FALSE]
  ELSE TokenGet(toks, user, callback_token, type) @@ [tokRead |-> TRUE]

\* a ValidationError raised inside validate(): CallbackTokenAuthSerializer
\* catches it and raises its own message, the other two let it through
Raised(r, msg) ==
  Fin(r, "Rejected", IF r.type = "AUTH" THEN {MsgInvalidAlias} ELSE {msg})

\* the DoesNotExist handlers of the three validate()
MsgUserDoesNotExist(type) ==
  CASE type = "AUTH" -> "Invalid user alias parameters provided."
    [] type = "VERIFY" -> "We could not verify this alias."
    [] type = "CHANGE" -> "We could not verify this alias. Bad user."

MsgTokenDoesNotExist(type) ==
  CASE type = "AUTH" -> MsgInvalidAlias
    [] type = "VERIFY" -> "We could not verify this alias."
    [] type = "CHANGE" -> "We could not verify this alias. No token."

\* The fields, then super().validate(attrs) and validate_alias(attrs)
FieldsDone(r, tav) ==
  IF tav.k \notin {"ok", "ValidationError"} THEN Fin(r, "SystemError", {tav.k})
  ELSE IF FieldErrors(r.req, tav) # {} THEN Fin(r, "Rejected", FieldErrors(r.req, tav))
  ELSE r

AliasDone(r, sup) ==
  IF sup.k = "DjangoValidationError" THEN Fin(r, "Rejected", {MsgPhoneFormat})
  ELSE IF sup.k # "ok" THEN Fin(r, "SystemError", {sup.k})
  ELSE IF validate_alias(sup.attrs).k # "ok" THEN Raised(r, "Invalid input.")
  ELSE [r EXCEPT !.pc = "resolve",
                 !.alias_type = validate_alias(sup.attrs).alias_type,
                 !.alias = validate_alias(sup.attrs).alias]

BeginStep(r, toks, clock, c) ==
  LET data == to_internal_value(r.req)
      fields == FieldsDone([r EXCEPT !.req = data, !.tokRead = ~c.testMode],
                           token_age_validator(toks, clock, c, data.token))
  IN IF fields.pc = "done" THEN fields
     ELSE AliasDone(fields, AbstractBaseCallbackTokenSerializer_validate(c, data))

\* User.objects.get(...) of each validate()
ResolveUser(r, us) ==
  CASE r.type = "AUTH" -> UserGetByAlias(us, r.alias_type, r.alias)
    [] r.type = "VERIFY" ->
         UserGetByIdAndAlias(us, r.req.user_id, r.alias_type, r.alias)
    [] r.type = "CHANGE" -> UserGetById(us, r.req.user_id)

\* Variant: CHANGE without the comparison with the user's own alias
UserDone_NoSameAliasCheck(r, us, ug) ==
  IF ug.k = "DoesNotExist" THEN Fin(r, "Rejected", {MsgUserDoesNotExist(r.type)})
  ELSE IF ug.k # "ok" THEN Fin(r, "SystemError", {ug.k})
  ELSE [r EXCEPT !.pc = "lookup", !.user = ug.id]


UserDone(r, us, ug) ==
  IF ug.k = "DoesNotExist" THEN Fin(r, "Rejected", {MsgUserDoesNotExist(r.type)})
  ELSE IF ug.k # "ok" THEN Fin(r, "SystemError", {ug.k})
  ELSE IF r.type = "CHANGE" /\ r.alias = us[ug.id][r.alias_type]
  THEN Fin([r EXCEPT !.user = ug.id], "Rejected", {"This user already have same alias."})
  ELSE [r EXCEPT !.pc = "lookup", !.user = ug.id]

\* the user lookup, and for CHANGE the comparison with the user's own alias
ResolveStep(r, us) == UserDone([r EXCEPT !.usrRead = TRUE], us, ResolveUser(r, us))

\* Variant: CHANGE without the token.to_alias == alias test
TokenDone_NoAliasScope(r, c, tg, is_active) ==
  IF tg.k = "ValidationError" THEN Raised(r, "Incorrect token from settings")
  ELSE IF tg.k = "DoesNotExist" THEN Fin(r, "Rejected", {MsgTokenDoesNotExist(r.type)})
  ELSE IF tg.k # "ok" THEN Fin(r, "SystemError", {tg.k})
  ELSE IF tg.token.user # r.user
  THEN Fin(r, "Rejected",
           IF r.type = "AUTH" THEN {MsgInvalidAlias}
           ELSE {"This token is invalid. Try again later."})
  ELSE IF r.type = "AUTH" /\ ~is_active THEN Raised(r, "User account is disabled.")
  ELSE IF r.type = "AUTH" /\ ~c.markVerified
  THEN Fin([r EXCEPT !.tok = tg.id], "Accepted", {})
  ELSE [r EXCEPT !.pc = "apply", !.tok = tg.id, !.token = tg.token]

\* the checks on the token and the user that precede the writes; is_active is
\* the flag of the user row read by the lookup
TokenDone(r, c, tg, is_active) ==
  IF tg.k = "ValidationError" THEN Raised(r, "Incorrect token from settings")
  ELSE IF tg.k = "DoesNotExist" THEN Fin(r, "Rejected", {MsgTokenDoesNotExist(r.type)})
  ELSE IF tg.k # "ok" THEN Fin(r, "SystemError", {tg.k})
  ELSE IF tg.token.user # r.user \/ (r.type = "CHANGE" /\ tg.token.to_alias # r.alias)
  THEN Fin(r, "Rejected",
           IF r.type = "AUTH" THEN {MsgInvalidAlias}
           ELSE {"This token is invalid. Try again later."})
  ELSE IF r.type = "AUTH" /\ ~is_active THEN Raised(r, "User account is disabled.")
  ELSE IF r.type = "AUTH" /\ ~c.markVerified
  THEN Fin([r EXCEPT !.tok = tg.id], "Accepted", {})
  ELSE [r EXCEPT !.pc = "apply", !.tok = tg.id, !.token = tg.token]

LookupStep(r, toks, c, is_active) ==
  TokenDone([r EXCEPT !.tokRead = @ \/ ~c.testMode], c,
            LookupToken(toks, c, r.user, r.req.token, r.type, r.alias_type, r.alias),
            is_active)

\* verify_user_alias of AUTH and VERIFY: AUTH raises when it returns False,
\* VERIFY logs and returns attrs
VerifyDone(r, success) ==
  [users |-> success.users,
   r |-> IF success.ok THEN Fin([r EXCEPT !.ver = "True"], "Accepted", {})
         ELSE IF r.type = "AUTH"
         THEN Raised([r EXCEPT !.ver = "False"], "Error validating user alias.")
         ELSE Fin([r EXCEPT !.ver = "False"], "Accepted", {})]

\* change_user_alias of CHANGE: when it returns False the "and" skips
\* verify_user_alias, the failure is logged and attrs are returned
ChangeDone(r, changed) ==
  [users |-> changed.users,
   r |-> IF changed.ok THEN [r EXCEPT !.pc = "verify", !.chg = "True"]
         ELSE Fin([r EXCEPT !.chg = "False"], "Accepted", {})]

ApplyStep(r, us, fails) ==
  IF r.type = "CHANGE"
  THEN ChangeDone(r, change_user_alias(us, r.user, r.token,
                                       UsersWithAlias(us, r.alias_type, r.alias), fails))
  ELSE VerifyDone(r, verify_user_alias(us, r.user, r.token, fails))

\* Variant: CHANGE raising when verify_user_alias returned False
ChangeVerifyDone_RaiseOnFalse(r, success) ==
  [users |-> success.users,
   r |-> IF success.ok THEN Fin([r EXCEPT !.ver = "True"], "Accepted", {})
         ELSE Fin([r EXCEPT !.ver = "False"], "Rejected",
                  {"Error validating user alias."})]

\* verify_user_alias of CHANGE, after change_user_alias returned True: its
\* result is logged and attrs are returned
ChangeVerifyDone(r, success) ==
  [users |-> success.users,
   r |-> Fin([r EXCEPT !.ver = IF success.ok THEN "True" ELSE "False"], "Accepted", {})]

VerifyStep(r, us, fails) ==
  ChangeVerifyDone(r, verify_user_alias(us, r.user, r.token, fails))

\* ---------------------------------------------------- the alias serializers
\* EmailAuthSerializer / MobileAuthSerializer (type ALIAS_AUTH) and
\* EmailChangeSerializer / MobileChangeSerializer (type ALIAS_CHANGE): the
\* requests that ask for a token to be sent.  alias_type names the serializer's
\* one field.
NewAliasRequest(type, alias_type, value, uid) ==
  [NewRequest(type, Payload(IF alias_type = "email" THEN <<value, None>>
                            ELSE <<None, value>>, None, uid))
     EXCEPT !.alias_type = alias_type]

\* the serializer's one declared field
AliasFieldErrors(alias_type, value) ==
  IF value = <<>> THEN {alias_type \o ": This field may not be blank."}
  ELSE IF alias_type = "email" /\ ~IsEmail(value)
  THEN {"email: Enter a valid email address."}
  ELSE IF alias_type = "mobile" /\ Len(value) > MOBILE_MAX_LENGTH
  THEN {"mobile: Ensure this field has no more than 17 characters."}
  ELSE {}

\* MobileAuthSerializer.validate / MobileChangeSerializer.validate up to
\* super().validate(attrs)
MobileSerializer_validate(c, attrs) ==
  IF StandardiseMobile(c, attrs.mobile).k # "ok"
  THEN [k |-> StandardiseMobile(c, attrs.mobile).k]
  ELSE IF ~PhoneRegexMatches(StandardiseMobile(c, attrs.mobile).v)
  THEN [k |-> "DjangoValidationError"]
  ELSE [k |-> "ok", attrs |-> [attrs EXCEPT !.mobile = StandardiseMobile(c, @).v]]

AliasFieldsDone(r, c, sup) ==
  IF AliasFieldErrors(r.alias_type, r.req[r.alias_type]) # {}
  THEN Fin(r, "Rejected", AliasFieldErrors(r.alias_type, r.req[r.alias_type]))
  ELSE IF sup.k = "DjangoValidationError" THEN Fin(r, "Rejected", {MsgPhoneFormat})
  ELSE IF sup.k # "ok" THEN Fin(r, "SystemError", {sup.k})
  ELSE [r EXCEPT !.pc = "get", !.alias = sup.attrs[r.alias_type]]

AliasBeginStep(r, c) ==
  LET data == to_internal_value(r.req)
  IN AliasFieldsDone([r EXCEPT !.req = data], c,
       IF r.alias_type = "mobile" /\ data.mobile # <<>>
          /\ Len(data.mobile) <= MOBILE_MAX_LENGTH
       THEN MobileSerializer_validate(c, data)
       ELSE [k |-> "ok", attrs |-> data])

\* AbstractBaseAliasAuthenticationSerializer.validate: the user lookup and
\* what follows it when the user exists or new users are not registered
AliasAuthGot(r, us, c, ug) ==
  IF ug.k = "DoesNotExist"
  THEN IF c.register THEN [r EXCEPT !.pc = "create"]
       ELSE Fin(r, "Rejected", {"No account is associated with this alias."})
  ELSE IF ug.k # "ok" THEN Fin(r, "SystemError", {ug.k})
  ELSE IF ~us[ug.id].is_active
  THEN Fin([r EXCEPT !.user = ug.id], "Rejected", {"User account is disabled."})
  ELSE Fin([r EXCEPT !.user = ug.id], "Accepted", {})

\* AbstractBaseAliasVerificationSerializer.validate, which EmailChangeSerializer
\* and MobileChangeSerializer inherit: request.user must be active
AliasChangeGot(r, us) ==
  IF ~us[r.req.user_id].is_active
  THEN Fin([r EXCEPT !.user = r.req.user_id], "Rejected", {"User account is disabled."})
  ELSE Fin([r EXCEPT !.user = r.req.user_id], "Accepted", {})

AliasGetStep(r, us, c) ==
  IF r.type = "ALIAS_AUTH"
  THEN AliasAuthGot([r EXCEPT !.usrRead = TRUE], us, c,
                    UserGetByAlias(us, r.alias_type, r.alias))
  ELSE AliasChangeGot(r, us)

\* the row User.objects.create(**{alias_field_name: alias}) inserts
NewUser(alias_type, alias) ==
  [[email |-> None, mobile |-> None, is_active |-> TRUE,
    email_verified |-> FALSE, mobile_verified |-> FALSE] EXCEPT ![alias_type] = alias]

\* User.objects.create after User.DoesNotExist; where the user table has a
\* unique index on the alias column an equal value raises IntegrityError
AliasCreateStep(r, us, c) ==
  IF c.uniqueAlias /\ \E u \in DOMAIN us : us[u][r.alias_type] = r.alias
  THEN [users |-> us, r |-> Fin(r, "SystemError", {"IntegrityError"})]
  ELSE [users |-> Append(us, NewUser(r.alias_type, r.alias)),
        r |-> Fin([r EXCEPT !.user = Len(us) + 1], "Accepted", {})]

AliasRun2(r, us, c) == IF r.pc = "get" THEN AliasGetStep(r, us, c) ELSE r
AliasRun3(r, us, c) ==
  IF r.pc = "create" THEN AliasCreateStep(r, us, c) ELSE [users |-> us, r |-> r]

alias_is_valid(type, us, c, alias_type, value, uid) ==
  AliasRun3(AliasRun2(AliasBeginStep(NewAliasRequest(type, alias_type, value, uid), c),
                      us, c),
            us, c)

\* serializer.is_valid() run from start to end on one store
Run2(r, us) == IF r.pc = "resolve" THEN ResolveStep(r, us) ELSE r
Run3(r, us, toks, c) ==
  IF r.pc = "lookup" THEN LookupStep(r, toks, c, us[r.user].is_active) ELSE r
Run4(r, us, chgFails, verFails) ==
  IF r.pc = "apply"
  THEN ApplyStep(r, us, IF r.type = "CHANGE" THEN chgFails ELSE verFails)
  ELSE [users |-> us, r |-> r]
Run5(x, verFails) ==
  IF x.r.pc = "verify" THEN VerifyStep(x.r, x.users, verFails) ELSE x

is_valid(type, us, toks, clock, c, req, chgFails, verFails) ==
  Run5(Run4(Run3(Run2(BeginStep(NewRequest(type, req), toks, clock, c), us),
                 us, toks, c),
            us, chgFails, verFails),
       verFails)

\* ----------------------------------------------------------------- actions
NoRequest == [type |-> "none"]

IdleWorker == [pc |-> "idle"]

InitUser(u, second) ==
  IF u = 1
  THEN [email |-> EmailA, mobile |-> MobileA, is_active |-> TRUE,
        email_verified |-> FALSE, mobile_verified |-> FALSE]
  ELSE IF u = 2
  THEN [email |-> second[1], mobile |-> None, is_active |-> second[2],
        email_verified |-> FALSE, mobile_verified |-> FALSE]
  ELSE [email |-> None, mobile |-> None, is_active |-> TRUE,
        email_verified |-> FALSE, mobile_verified |-> FALSE]

\* the second user: its own alias, disabled with its own alias, or an alias
\* that differs from the first user's in case only
SecondUsers == {<<EmailB, TRUE>>, <<EmailB, FALSE>>, <<EmailAUpper, TRUE>>}

\* api_settings: test mode on or off; mobile standardisation and the marking
\* of aliases as verified on AUTH both on or both off; no registration of new
\* users (SpecReg has it on)
Settings ==
  {c \in [testMode : BOOLEAN, standardise : BOOLEAN, markVerified : BOOLEAN,
           register : {FALSE}, uniqueAlias : {FALSE}] :
     c.standardise = c.markVerified}

\* The tokens issuance can create at time clock: for (user, type), bound to an
\* alias; an AUTH or VERIFY token is bound to an alias the user has
IssuableTokens(us, clock) ==
  {t \in {[user |-> u, key |-> key, type |-> type, is_active |-> TRUE,
           to_alias |-> ia[2], to_alias_type |-> AliasTypeName(ia[1]),
           created_at |-> clock] :
            u \in DOMAIN us, type \in TokenTypes, key \in IssuedKeys,
            ia \in IssueAliases} :
     t.type \in {"AUTH", "VERIFY"} =>
       us[t.user][AliasField(t.to_alias_type)] = t.to_alias}

\* The store starts empty or (test mode off) holding one token that is no
\* longer active
Init ==
  /\ \E second \in SecondUsers : users = [u \in Users |-> InitUser(u, second)]
  /\ now = 0
  /\ cfg \in Settings
  /\ tokens \in {<<>>} \cup
       (IF cfg.testMode THEN {}
        ELSE {<<[t EXCEPT !.is_active = FALSE]>> : t \in IssuableTokens(users, 0)})
  /\ last = NoRequest
  /\ served = 0
  /\ wk = [w \in Workers |-> IdleWorker]

\* Issuance of a callback token: the new active token supersedes the active
\* tokens of its (user, type) slot
IssueToken ==
  /\ last = NoRequest
  /\ Len(tokens) < MaxTokens
  /\ \E t \in IssuableTokens(users, now) :
       tokens' = Append(
         [i \in DOMAIN tokens |->
            IF tokens[i].user = t.user /\ tokens[i].type = t.type
            THEN [tokens[i] EXCEPT !.is_active = FALSE] ELSE tokens[i]],
         t)
  /\ UNCHANGED <<users, now, cfg, last, served, wk>>

Tick ==
  /\ last = NoRequest
  /\ now < MaxNow
  /\ now' = now + 1
  /\ UNCHANGED <<users, tokens, cfg, last, served, wk>>

\* the persistence failures a request can meet: one is drawn only for a
\* helper the request calls
FailureChoices(called) == IF called = "none" THEN {FALSE} ELSE BOOLEAN

\* One request served from start to end; last keeps the user table it found
Serve(type, req) ==
  LET r0 == is_valid(type, users, tokens, now, cfg, req, FALSE, FALSE).r IN
  \E chgFails \in FailureChoices(r0.chg), verFails \in FailureChoices(r0.ver) :
    LET res == is_valid(type, users, tokens, now, cfg, req, chgFails, verFails)
    IN /\ users' = res.users
       /\ last' = res.r @@ [pre |-> users]
       /\ served' = served + 1
       /\ UNCHANGED <<tokens, now, cfg, wk>>

\* the service takes a request when it has answered the one before
Ready == last = NoRequest /\ served < MaxRequests

ValidateAuth ==
  /\ Ready
  /\ \E p \in PayloadInputs : Serve("AUTH", Payload(p[1], p[2], 0))

ValidateVerify ==
  /\ Ready
  /\ \E p \in PayloadInputs, uid \in UserIdInputs :
       Serve("VERIFY", Payload(p[1], p[2], uid))

ValidateChange ==
  /\ Ready
  /\ \E p \in PayloadInputs, uid \in UserIdInputs :
       Serve("CHANGE", Payload(p[1], p[2], uid))

ServeAlias(type, alias_type, value, uid) ==
  LET res == alias_is_valid(type, users, cfg, alias_type, value, uid)
  IN /\ users' = res.users
     /\ last' = res.r @@ [pre |-> users]
     /\ served' = served + 1
     /\ UNCHANGED <<tokens, now, cfg, wk>>

RequestAuth ==
  /\ Ready
  /\ \E a \in AliasRequestInputs : ServeAlias("ALIAS_AUTH", a[1], a[2], 0)

RequestChange ==
  /\ Ready
  /\ \E a \in AliasRequestInputs, uid \in Users :
       ServeAlias("ALIAS_CHANGE", a[1], a[2], uid)

\* The response reaches the caller; the service takes the next request
Respond ==
  /\ last # NoRequest
  /\ last' = NoRequest
  /\ UNCHANGED <<users, tokens, now, cfg, served, wk>>

Next ==
  \/ IssueToken
  \/ Tick
  \/ ValidateAuth
  \/ ValidateVerify
  \/ ValidateChange
  \/ RequestAuth
  \/ RequestChange
  \/ Respond

Spec == Init /\ [][Next]_vars

\* ------------------------------------------------------- concurrent workers
\* Each worker serves one request in the steps in which is_valid() reaches the
\* shared tables: the fields (token-age read), the user lookup, the token
\* lookup, the alias write(s).  Between two steps of a worker any other
\* worker may take steps.
ConcAliasInputs == {<<EmailA, None>>, <<EmailB, None>>, <<None, MobileB>>}
ConcTokenInputs == {Key1}

Begin(w) ==
  \E type \in TokenTypes, a \in ConcAliasInputs, t \in ConcTokenInputs,
     uid \in UserIdInputs :
    /\ wk[w].pc = "idle"
    /\ IF type = "AUTH" THEN uid = 0 ELSE uid # 0
    /\ wk' = [wk EXCEPT ![w] =
                BeginStep(NewRequest(type, Payload(a, t, uid)), tokens, now, cfg)]
    /\ UNCHANGED <<users, tokens, now, cfg, last, served>>

\* the worker keeps the user row it read
Resolve(w) ==
  /\ wk[w].pc = "resolve"
  /\ wk' = [wk EXCEPT ![w] =
              IF ResolveStep(wk[w], users).pc = "lookup"
              THEN ResolveStep(wk[w], users) @@
                   [is_active |-> users[ResolveStep(wk[w], users).user].is_active]
              ELSE ResolveStep(wk[w], users)]
  /\ UNCHANGED <<users, tokens, now, cfg, last, served>>

WithoutRow(r) == [f \in DOMAIN r \ {"is_active"} |-> r[f]]

Lookup(w) ==
  /\ wk[w].pc = "lookup"
  /\ wk' = [wk EXCEPT ![w] =
              LookupStep(WithoutRow(wk[w]), tokens, cfg, wk[w].is_active)]
  /\ UNCHANGED <<users, tokens, now, cfg, last, served>>

Apply(w) ==
  /\ wk[w].pc = "apply"
  /\ \E fails \in BOOLEAN :
       /\ users' = ApplyStep(wk[w], users, fails).users
       /\ wk' = [wk EXCEPT ![w] = ApplyStep(wk[w], users, fails).r]
  /\ UNCHANGED <<tokens, now, cfg, last, served>>

Verify(w) ==
  /\ wk[w].pc = "verify"
  /\ \E fails \in BOOLEAN :
       /\ users' = VerifyStep(wk[w], users, fails).users
       /\ wk' = [wk EXCEPT ![w] = VerifyStep(wk[w], users, fails).r]
  /\ UNCHANGED <<tokens, now, cfg, last, served>>

\* The workers start on a store in which issuance has left at most one token
\* (none in test mode, which reads none), with mobile standardisation on
InitConc ==
  /\ \E second \in SecondUsers : users = [u \in Users |-> InitUser(u, second)]
  /\ now = 0
  /\ cfg \in {c \in [testMode : BOOLEAN, standardise : {TRUE}, markVerified : BOOLEAN] :
                TRUE}
  /\ tokens \in {<<>>} \cup
       (IF cfg.testMode THEN {} ELSE {<<t>> : t \in IssuableTokens(users, 0)})
  /\ last = NoRequest
  /\ served = 0
  /\ wk = [w \in Workers |-> IdleWorker]

NextConc ==
  \/ \E w \in Workers : Begin(w)
  \/ \E w \in Workers : Resolve(w)
  \/ \E w \in Workers : Lookup(w)
  \/ \E w \in Workers : Apply(w)
  \/ \E w \in Workers : Verify(w)

SpecConc == InitConc /\ [][NextConc]_vars

\* ------------------------------------------------- concurrent registration
\* Workers serve EmailAuthSerializer / MobileAuthSerializer requests in the
\* steps in which validate() reaches the user table: the fields, the
\* User.objects.get, and (new users registered) the User.objects.create.
RegInputs == {<<"email", EmailB>>, <<"email", EmailBUpper>>, <<"mobile", MobileB>>}

RegBegin(w) ==
  \E a \in RegInputs :
    /\ wk[w].pc = "idle"
    /\ wk' = [wk EXCEPT ![w] =
                AliasBeginStep(NewAliasRequest("ALIAS_AUTH", a[1], a[2], 0), cfg)]
    /\ UNCHANGED <<users, tokens, now, cfg, last, served>>

RegGet(w) ==
  /\ wk[w].pc = "get"
  /\ wk' = [wk EXCEPT ![w] = AliasGetStep(wk[w], users, cfg)]
  /\ UNCHANGED <<users, tokens, now, cfg, last, served>>

RegCreate(w) ==
  /\ wk[w].pc = "create"
  /\ users' = AliasCreateStep(wk[w], users, cfg).users
  /\ wk' = [wk EXCEPT ![w] = AliasCreateStep(wk[w], users, cfg).r]
  /\ UNCHANGED <<tokens, now, cfg, last, served>>

\* PASSWORDLESS_REGISTER_NEW_USERS on or off, the alias columns with or
\* without a unique index
InitReg ==
  /\ \E second \in SecondUsers : users = [u \in Users |-> InitUser(u, second)]
  /\ now = 0
  /\ cfg \in [testMode : {FALSE}, standardise : BOOLEAN, markVerified : {FALSE},
              register : BOOLEAN, uniqueAlias : BOOLEAN]
  /\ tokens = <<>>
  /\ last = NoRequest
  /\ served = 0
  /\ wk = [w \in Workers |-> IdleWorker]

NextReg ==
  \/ \E w \in Workers : RegBegin(w)
  \/ \E w \in Workers : RegGet(w)
  \/ \E w \in Workers : RegCreate(w)

SpecReg == InitReg /\ [][NextReg]_vars

\* ------------------------------------------------- clear_mobile_number alone
\* clear_mobile_number applied to every string of up to MaxLen characters of
\* MobileChars, and applied again to its result
MobileChars == {"+", "1", " ", "-", "(", ")"}
MobileStrings == UNION {[1..n -> MobileChars] : n \in 1..MaxLen}

InitClear ==
  /\ users = [u \in Users |-> InitUser(u, <<EmailB, TRUE>>)]
  /\ tokens = <<>>
  /\ now = 0
  /\ cfg = [testMode |-> FALSE, standardise |-> TRUE, markVerified |-> FALSE]
  /\ \E x \in MobileStrings : last = [type |-> "clear", pc |-> "input", x |-> x]
  /\ served = 0
  /\ wk = [w \in Workers |-> IdleWorker]

ClearOnce ==
  /\ last.pc = "input"
  /\ last' = [type |-> "clear", pc |-> "once", x |-> last.x,
              y |-> clear_mobile_number(last.x)]
  /\ UNCHANGED <<users, tokens, now, cfg, served, wk>>

ClearTwice ==
  /\ last.pc = "once"
  /\ last.y.k = "ok"
  /\ last' = [type |-> "clear", pc |-> "twice", x |-> last.x, y |-> last.y,
              z |-> clear_mobile_number(last.y.v)]
  /\ UNCHANGED <<users, tokens, now, cfg, served, wk>>

NextClear ==
  \/ ClearOnce
  \/ ClearTwice

SpecClear == InitClear /\ [][NextClear]_vars

\* ------------------------------------------------------------------ claims
\* a token validation has been served and its response is pending
Served == last.type \in TokenTypes
Accepted == Served /\ last.outcome = "Accepted"
\* the users that held alias in the user table us, compared without case
Holders(us, alias_type, alias) ==
  {u \in DOMAIN us : us[u][alias_type] # None /\ Lower(us[u][alias_type]) = Lower(alias)}
Expired(t) == now - t.created_at > TokenExpireTime
BadShape(req) ==
  (req.email # None /\ req.mobile # None) \/ (req.email = None /\ req.mobile = None)
Denylisted(t) == PyInt(t).k = "ok" /\ PyInt(t).v \in TestCodeIncorrect

\* C1 (single use): after an Accepted validation with test mode off, the token
\* the validation matched is no longer active, so the same key cannot be
\* accepted again.
C1_TokenConsumedOnAccept ==
  (Accepted /\ ~cfg.testMode) =>
    \A i \in DOMAIN tokens :
      (tokens[i].user = last.user /\ tokens[i].key = last.req.token
         /\ tokens[i].type = last.type) => ~tokens[i].is_active

\* C2 (double spend): when two workers validate the same payload against the
\* same stored token and one of them is Accepted, the other is rejected.
C2_ExactlyOneAccepted ==
  \A w1 \in Workers, w2 \in Workers :
    (/\ w1 # w2
     /\ wk[w1].pc = "done"
     /\ wk[w2].pc = "done"
     /\ wk[w1].outcome = "Accepted"
     /\ wk[w1].tok \in DOMAIN tokens
     /\ wk[w2].type = wk[w1].type
     /\ wk[w2].req = wk[w1].req)
      => wk[w2].outcome = "Rejected"

\* C3: with test mode off a validation of any type is Accepted only if the
\* token table holds an active token of that type, owned by the user the
\* request resolved (by alias for AUTH, by context id for VERIFY and CHANGE),
\* whose key is the submitted token.
C3_AcceptedOnlyWithMatchingToken ==
  (Accepted /\ ~cfg.testMode) =>
    /\ \E i \in DOMAIN tokens :
         /\ tokens[i].is_active
         /\ tokens[i].type = last.type
         /\ tokens[i].user = last.user
         /\ tokens[i].key = last.req.token
    /\ IF last.type = "AUTH"
       THEN last.user \in Holders(last.pre, last.alias_type, last.alias)
       ELSE last.user = last.req.user_id

C3_Witness == Accepted /\ ~cfg.testMode /\ last.type = "AUTH"

\* C4 (expiry): with test mode off, no request that submits the key of an
\* active token older than the TTL is Accepted, whoever sends it and for
\* whatever alias.
C4_ExpiredNeverAccepted ==
  \A i \in DOMAIN tokens :
    (/\ Served
     /\ ~cfg.testMode
     /\ tokens[i].is_active
     /\ Expired(tokens[i])
     /\ last.req.token = tokens[i].key)
      => last.outcome # "Accepted"

\* the owner of an expired AUTH token submits its e-mail alias and the key
C4_Witness ==
  \E i \in DOMAIN tokens :
    /\ Served
    /\ ~cfg.testMode
    /\ tokens[i].is_active
    /\ Expired(tokens[i])
    /\ tokens[i].type = "AUTH"
    /\ last.type = "AUTH"
    /\ last.req.token = tokens[i].key
    /\ last.req.mobile = None
    /\ last.req.email # None
    /\ Holders(users, "email", last.req.email) = {tokens[i].user}
    /\ users[tokens[i].user].is_active
    /\ last.outcome = "Rejected"

\* C5: after an Accepted CHANGE validation of a user to alias v, the user's
\* alias is v and is marked verified, and no other user holds v.
C5_ChangeAppliedOnAccept ==
  (Accepted /\ last.type = "CHANGE") =>
    /\ users[last.user][last.alias_type] = last.alias
    /\ users[last.user][VerifiedField(AliasTypeName(last.alias_type))]
    /\ Holders(users, last.alias_type, last.alias) = {last.user}

\* C6: a CHANGE validation in which change_user_alias or verify_user_alias
\* returned False is not Accepted.
C6_FailedChangeNotAccepted ==
  (Served /\ last.type = "CHANGE" /\ (last.chg = "False" \/ last.ver = "False"))
    => last.outcome # "Accepted"

C8_GenericRejection ==
  (last = NoRequest) =>
    \A type \in {"AUTH", "VERIFY"}, t \in {Key1, KeyDenied}, uid \in Users,
       p1 \in IssueAliases, p2 \in IssueAliases :
      LET a1 == IF p1[1] = "email" THEN <<p1[2], None>> ELSE <<None, p1[2]>>
          a2 == IF p2[1] = "email" THEN <<p2[2], None>> ELSE <<None, p2[2]>>
          r1 == is_valid(type, users, tokens, now, cfg, Payload(a1, t, uid),
                         FALSE, FALSE).r
          r2 == is_valid(type, users, tokens, now, cfg, Payload(a2, t, uid),
                         FALSE, FALSE).r
      IN (/\ p1[1] = p2[1]
          /\ Holders(users, p1[1], p1[2]) = {}
          /\ Cardinality(Holders(users, p2[1], p2[2])) = 1
          /\ r1.outcome = "Rejected"
          /\ r2.outcome = "Rejected")
           => r1.msg = r2.msg

SubmittedAlias ==
  LET sup == AbstractBaseCallbackTokenSerializer_validate(cfg, last.req)
  IN IF \/ (last.req.email # None /\ ~IsEmail(last.req.email))
        \/ (last.req.mobile # None /\ Len(last.req.mobile) > MOBILE_MAX_LENGTH)
        \/ sup.k # "ok"
     THEN [k |-> "none"]
     ELSE IF validate_alias(sup.attrs).k # "ok" THEN [k |-> "none"]
     ELSE validate_alias(sup.attrs)

\* the checks of the served request that do not involve the token: the alias
\* resolves, and the user the serializer needs exists (for AUTH: is the one
\* holder, is active, and marking the alias verified did not fail)
NonTokenChecksPass ==
  /\ SubmittedAlias.k = "ok"
  /\ CASE last.type = "AUTH" ->
            /\ \E u \in DOMAIN users :
                 /\ Holders(last.pre, SubmittedAlias.alias_type, SubmittedAlias.alias) = {u}
                 /\ last.pre[u].is_active
            /\ last.ver # "False"
       [] last.type = "VERIFY" ->
            last.req.user_id
              \in Holders(last.pre, SubmittedAlias.alias_type, SubmittedAlias.alias)
       [] last.type = "CHANGE" ->
            /\ last.req.user_id \in DOMAIN users
            /\ SubmittedAlias.alias
                 # last.pre[last.req.user_id][SubmittedAlias.alias_type]

\* C10 (amended): in test mode no request reads the token table, a token on
\* the denylist is never Accepted, and any other token of TOKEN_LENGTH digits
\* is Accepted whenever the checks that do not involve the token pass.
C10_TestMode ==
  (Served /\ cfg.testMode) =>
    /\ ~last.tokRead
    /\ Denylisted(last.req.token) => last.outcome # "Accepted"
    /\ (/\ ~Denylisted(last.req.token)
        /\ Len(last.req.token) = TOKEN_LENGTH
        /\ AllDigits(last.req.token)
        /\ NonTokenChecksPass) => last.outcome = "Accepted"

\* accepted in test mode while the token table holds a token
C10_Witness == Accepted /\ cfg.testMode /\ tokens # <<>> /\ ~last.tokRead

\* C10 as stated: in test mode a token on the denylist is never Accepted and
\* any other token of the configured length is Accepted (the checks that do
\* not involve the token passing), without a read of the token table.
C10_TestModeAsStated ==
  (Served /\ cfg.testMode) =>
    /\ ~last.tokRead
    /\ Denylisted(last.req.token) => last.outcome # "Accepted"
    /\ (/\ ~Denylisted(last.req.token)
        /\ Len(last.req.token) = TOKEN_LENGTH
        /\ NonTokenChecksPass) => last.outcome = "Accepted"

\* the served request submits, after normalisation, exactly the alias its
\* context user has
SameAliasSubmitted ==
  /\ last.req.user_id \in DOMAIN last.pre
  /\ SubmittedAlias.k = "ok"
  /\ SubmittedAlias.alias = last.pre[last.req.user_id][SubmittedAlias.alias_type]

C14_ChangeTokenScoped ==
  (Accepted /\ last.type = "CHANGE" /\ ~cfg.testMode) =>
    /\ last.tok \in DOMAIN tokens
    /\ tokens[last.tok].to_alias = last.alias
    /\ AliasField(tokens[last.tok].to_alias_type) = last.alias_type
    /\ users[last.user][last.alias_type]
         \in {last.pre[last.user][last.alias_type], tokens[last.tok].to_alias}
    /\ last.chg = "True" => users[last.user][last.alias_type] = tokens[last.tok].to_alias

C14_Witness ==
  /\ Accepted
  /\ last.type = "CHANGE"
  /\ ~cfg.testMode
  /\ last.chg = "True"
  /\ users[last.user][last.alias_type] # last.pre[last.user][last.alias_type]

\* C15: after an Accepted VERIFY validation the alias of the token's type on
\* the validated user is marked verified (so a VERIFY in which
\* verify_user_alias returned False is not Accepted).
C15_VerifyMarksVerified ==
  (Accepted /\ last.type = "VERIFY") =>
    /\ last.ver # "False"
    /\ users[last.user][VerifiedField(AliasTypeName(last.alias_type))]

\* C17: no validation is Accepted for a user whose is_active flag is false,
\* and a request resolved to such a user writes nothing.
C17_InactiveNeverAccepted ==
  (Served /\ last.user \in DOMAIN last.pre /\ ~last.pre[last.user].is_active) =>
    /\ last.outcome # "Accepted"
    /\ users = last.pre

\* C19 (frame): a validation that ends Rejected leaves the user table and the
\* token table as it found them.
C19_RejectedLeavesStore ==
  [][(last.type = "none" /\ last'.type \in TokenTypes /\ last'.outcome = "Rejected")
       => (users' = users /\ tokens' = tokens)]_vars

\* AUTH rejected because verify_user_alias returned False
C19_Witness == Served /\ last.outcome = "Rejected" /\ last.ver = "False"

C12_ClearIdempotent ==
  /\ (last.pc \in {"once", "twice"} /\ last.y.k = "ok") =>
       /\ last.y.v[1] = "+"
       /\ \A i \in DOMAIN last.y.v : last.y.v[i] \notin Whitespace \cup {"-", "(", ")"}
  /\ last.pc = "twice" => last.z = last.y

\* an input that normalisation changes, normalised twice
C12_Witness ==
  /\ last.pc = "twice"
  /\ last.x[1] # "+"
  /\ Len(last.y.v) < Len(last.x)

\* a request to any serializer has been served
AnyServed == last.type \in TokenTypes \cup {"ALIAS_AUTH", "ALIAS_CHANGE"}

\* a full match of ^\+[1-9]\d{1,14}$
MatchesPhoneFormat(s) ==
  /\ Len(s) >= 3
  /\ Len(s) <= 16
  /\ s[1] = "+"
  /\ s[2] \in Digits \ {"0"}
  /\ \A i \in 3..Len(s) : s[i] \in Digits

\* the submitted mobile has no normal form or its normal form does not match
MobileMismatch ==
  /\ last.req.mobile # None
  /\ \/ StandardiseMobile(cfg, last.req.mobile).k # "ok"
     \/ ~MatchesPhoneFormat(StandardiseMobile(cfg, last.req.mobile).v)

C16_SameAliasChangeRequestRejected ==
  (/\ last.type = "ALIAS_CHANGE"
   /\ last.alias # None
   /\ last.pre[last.req.user_id].is_active
   /\ last.alias = last.pre[last.req.user_id][last.alias_type])
    => (last.outcome = "Rejected" /\ last.msg = {"This user already have same alias."})

\* C18: whatever the interleaving of the workers' AUTH requests, a user that
\* registration created is the only holder of its alias (compared without
\* case); with registration off no user is created and a request for an alias
\* nobody holds is rejected.
C18_AtMostOneUserPerAlias ==
  /\ \A u \in DOMAIN users, f \in {"email", "mobile"} :
       (u > NumUsers /\ users[u][f] # None) => Holders(users, f, users[u][f]) = {u}
  /\ ~cfg.register =>
       /\ Len(users) = NumUsers
       /\ \A w \in Workers :
            (wk[w].pc = "done" /\ wk[w].usrRead
               /\ Holders(users, wk[w].alias_type, wk[w].alias) = {})
              => wk[w].outcome = "Rejected"

====
